---- MODULE Spec2Model ----
(***************************************************************************)
(* Bearer-token authentication pipeline of mpc-backend-mock:               *)
(*   server/src/web/middleware/jwks.rs  (JwksClient, the key set cache)    *)
(*   server/src/web/middleware/auth.rs  (jwt_auth_middleware, validators)  *)
(* Time is counted in whole seconds from the start of the process; the     *)
(* same clock serves Instant::now() and the wall clock used for `exp`.     *)
(***************************************************************************)
EXTENDS Integers, Sequences, FiniteSets, TLC

VARIABLES now, ticks, cfg, idpKeys, cache, lock, req, rf, hist, um

vars == <<now, ticks, cfg, idpKeys, cache, lock, req, rf, hist, um>>

----------------------------------------------------------------------------
(* Bounds of the model *)

NumTasks == 1
MaxTicks == 2
MaxCalls == 3
NumClients == 2

Tasks == 1..NumTasks
Clients == 1..NumClients
TickSteps == {1, 299}

(* Program constants *)

TTL == 300
Leeway == 60
BearerLen == 7

None == <<>>
Some(x) == <<x>>
IsSome(o) == Len(o) = 1
IsNone(o) == Len(o) = 0
Unwrap(o) == o[1]

----------------------------------------------------------------------------
(* Strings are sequences of characters; a token segment is one symbol.     *)

BearerPrefix == <<"B", "e", "a", "r", "e", "r", " ">>

StartsWith(s, p) == Len(s) >= Len(p) /\ SubSeq(s, 1, Len(p)) = p

IsVisibleAscii(c) == c # "\\xff"

ToStr(v) == IF \A i \in 1..Len(v) : IsVisibleAscii(v[i]) THEN Some(v) ELSE None

(* str::rsplitn(2, '.') : position of the last '.', 0 when there is none *)
RECURSIVE LastDot(_, _)
LastDot(s, i) == IF i = 0 THEN 0 ELSE IF s[i] = "." THEN i ELSE LastDot(s, i - 1)

RSplit2(s) ==
    LET d == LastDot(s, Len(s))
    IN  IF d = 0 THEN None
        ELSE Some([head |-> SubSeq(s, 1, d - 1), tail |-> SubSeq(s, d + 1, Len(s))])

----------------------------------------------------------------------------
(* Token segments.  An encoded segment is a symbol; decoding it is a table *)
(* lookup that fails for every symbol that is not the encoding of a JSON   *)
(* object of the expected shape.                                           *)

ExpectedIssuer == "http://localhost:8080/realms/mpc"
ExpectedAudience == "account"

UuidA == "11111111-1111-1111-1111-111111111111"
UuidASimple == "11111111111111111111111111111111"

HeaderTable ==
    ("eyJ.k1"   :> [alg |-> "RS256", kid |-> Some("kid-1")]) @@
    ("eyJ.k2"   :> [alg |-> "RS256", kid |-> Some("kid-2")]) @@
    ("eyJ.k3"   :> [alg |-> "RS256", kid |-> Some("kid-3")]) @@
    ("eyJ.k1hs" :> [alg |-> "HS256", kid |-> Some("kid-1")]) @@
    ("eyJ.hs"   :> [alg |-> "HS256", kid |-> None])

GoodPayload ==
    [sub |-> Some(UuidA), iat |-> Some(0), exp |-> Some(4000), nbf |-> None,
     aud |-> Some(ExpectedAudience), iss |-> Some(ExpectedIssuer),
     email |-> Some("a@example.com"), preferred_username |-> Some("alice"),
     email_verified |-> Some(TRUE)]

PayloadTable ==
    ("p.good"     :> GoodPayload) @@
    ("p.exp0"     :> [GoodPayload EXCEPT !.exp = Some(0)]) @@
    ("p.exp238"   :> [GoodPayload EXCEPT !.exp = Some(238)]) @@
    ("p.noexp"    :> [GoodPayload EXCEPT !.exp = None]) @@
    ("p.nosub"    :> [GoodPayload EXCEPT !.sub = None]) @@
    ("p.noiat"    :> [GoodPayload EXCEPT !.iat = None]) @@
    ("p.baduuid"  :> [GoodPayload EXCEPT !.sub = Some("not-a-uuid")]) @@
    ("p.simple"   :> [GoodPayload EXCEPT !.sub = Some(UuidASimple)]) @@
    ("p.iss"      :> [GoodPayload EXCEPT !.iss = Some("http://evil.example/realms/mpc")]) @@
    ("p.aud"      :> [GoodPayload EXCEPT !.aud = Some("other-client")]) @@
    ("p.nbf"      :> [GoodPayload EXCEPT !.nbf = Some(9000)]) @@
    ("p.bare"     :> [GoodPayload EXCEPT !.email = None, !.preferred_username = None,
                                         !.email_verified = None]) @@
    ("p.unverif"  :> [GoodPayload EXCEPT !.email_verified = Some(FALSE)]) @@
    ("p.test"     :> [GoodPayload EXCEPT !.exp = Some(3600), !.iss = None, !.aud = None,
                                         !.preferred_username = Some("a@example.com")]) @@
    ("p.incomplete" :> [GoodPayload EXCEPT !.sub = None, !.iat = None, !.exp = Some(3600),
                                           !.iss = None, !.aud = None,
                                           !.preferred_username = None,
                                           !.email_verified = None])

(* the key material a signature segment was produced with *)
SignatureTable ==
    ("sig.A" :> "A") @@ ("sig.B" :> "B") @@ ("sig.bad" :> "none") @@
    ("sig.secret" :> "test-secret")

(* Header::from_encoded: base64 + JSON decoding of one segment *)
HeaderFromEncoded(seg) ==
    IF Len(seg) = 1 /\ seg[1] \in DOMAIN HeaderTable THEN Some(HeaderTable[seg[1]]) ELSE None

(* jsonwebtoken::decode_header *)
DecodeHeader(token) ==
    LET a == RSplit2(token)
    IN  IF IsNone(a) THEN None
        ELSE LET b == RSplit2(Unwrap(a).head)
             IN  IF IsNone(b) THEN None ELSE HeaderFromEncoded(Unwrap(b).head)

(* Uuid::parse_str: hyphenated and simple forms denote the same value *)
ParseUuid(s) ==
    IF s = UuidA \/ s = UuidASimple THEN Some(UuidA) ELSE None

----------------------------------------------------------------------------
(* Key sets published by the identity provider *)

Jwk1A == [kid |-> "kid-1", kty |-> "RSA", key |-> "A"]
Jwk2B == [kid |-> "kid-2", kty |-> "RSA", key |-> "B"]

KeySets == {<<Jwk1A>>, <<Jwk1A, Jwk2B>>}

(* JwkSet::find: the first key with the given key id *)
RECURSIVE FindFrom(_, _, _)
FindFrom(jwks, kid, i) ==
    IF i > Len(jwks) THEN None
    ELSE IF jwks[i].kid = kid THEN Some(jwks[i]) ELSE FindFrom(jwks, kid, i + 1)

Find(jwks, kid) == FindFrom(jwks, kid, 1)

AlgFamily(alg) == IF alg = "HS256" THEN "oct" ELSE "RSA"

(* DecodingKey::from_jwk *)
FromJwk(jwk) ==
    IF jwk.kty \in {"RSA", "EC", "oct", "OKP"}
    THEN Some([family |-> jwk.kty, key |-> jwk.key])
    ELSE None

Ok(c) == [ok |-> TRUE, claims |-> c, reason |-> ""]
Fail(r) == [ok |-> FALSE, claims |-> GoodPayload, reason |-> r]

(* a token whose nbf lies in the future is refused *)
ValidateClaimsEnforcesNbf(c, t) ==
    IF IsNone(c.exp) THEN Fail("MissingRequiredClaim")
    ELSE IF Unwrap(c.exp) < t - Leeway THEN Fail("ExpiredSignature")
    ELSE IF IsSome(c.nbf) /\ Unwrap(c.nbf) > t + Leeway THEN Fail("ImmatureSignature")
    ELSE IF IsSome(c.iss) /\ Unwrap(c.iss) # ExpectedIssuer THEN Fail("InvalidIssuer")
    ELSE IF IsSome(c.aud) /\ Unwrap(c.aud) # ExpectedAudience THEN Fail("InvalidAudience")
    ELSE Ok(c)

(* jsonwebtoken::validation::validate with the settings of                 *)
(* validate_token_jwks: exp checked with the default leeway, nbf ignored,  *)
(* issuer and audience compared when the claim is present.                 *)
ValidateClaims(c, t) ==
    IF IsNone(c.exp) THEN Fail("MissingRequiredClaim")
    ELSE IF Unwrap(c.exp) < t - Leeway THEN Fail("ExpiredSignature")
    ELSE IF IsSome(c.iss) /\ Unwrap(c.iss) # ExpectedIssuer THEN Fail("InvalidIssuer")
    ELSE IF IsSome(c.aud) /\ Unwrap(c.aud) # ExpectedAudience THEN Fail("InvalidAudience")
    ELSE Ok(c)

(* a payload without sub is read with an empty sub *)
DeserializeClaimsSubDefault(seg) ==
    IF Len(seg) = 1 /\ seg[1] \in DOMAIN PayloadTable
    THEN LET c == PayloadTable[seg[1]]
         IN  IF IsSome(c.iat) /\ IsSome(c.exp)
             THEN Some([c EXCEPT !.sub = IF IsSome(c.sub) THEN c.sub ELSE Some("")])
             ELSE None
    ELSE None

(* serde deserialisation of the payload into Claims: sub, iat and exp are  *)
(* not Option and must be present                                          *)
DeserializeClaims(seg) ==
    IF Len(seg) = 1 /\ seg[1] \in DOMAIN PayloadTable
    THEN LET c == PayloadTable[seg[1]]
         IN  IF IsSome(c.sub) /\ IsSome(c.iat) /\ IsSome(c.exp) THEN Some(c) ELSE None
    ELSE None

VerifySignature(seg, key) ==
    Len(seg) = 1 /\ seg[1] \in DOMAIN SignatureTable /\ SignatureTable[seg[1]] = key.key

(* jsonwebtoken::decode::<Claims>(token, key, Validation::new(alg)) at time t *)
Decode(token, key, alg, t) ==
    LET a == RSplit2(token)
        b == IF IsNone(a) THEN None ELSE RSplit2(Unwrap(a).head)
    IN  IF key.family # AlgFamily(alg) THEN Fail("InvalidAlgorithm")
        ELSE IF IsNone(a) \/ IsNone(b) THEN Fail("InvalidToken")
        ELSE IF IsNone(HeaderFromEncoded(Unwrap(b).head)) THEN Fail("Base64")
        ELSE IF ~VerifySignature(Unwrap(a).tail, key) THEN Fail("InvalidSignature")
        ELSE LET c == DeserializeClaims(Unwrap(b).tail)
             IN  IF IsNone(c) THEN Fail("Json") ELSE ValidateClaims(Unwrap(c), t)

(* every error kind answers with the status of its body's error type *)
StatusOfErrorType(kind) ==
    CASE kind = "InsufficientPermissions" -> 403
      [] OTHER -> 401

(* AuthError::into_response: the status code of each error kind *)
StatusOf(kind) ==
    CASE kind = "MissingToken" -> 401
      [] kind = "InvalidToken" -> 401
      [] kind = "InsufficientPermissions" -> 403
      [] kind = "JwksError" -> 500
      [] kind = "InvalidConfiguration" -> 500
      [] kind = "IntrospectionError" -> 500

----------------------------------------------------------------------------
(* Requests *)

Bearer(tok) == Some(BearerPrefix \o tok)

Jwt(h, p, s) == <<h, ".", p, ".", s>>

(* Authorization headers used to exercise the key set cache *)
CacheHeaders ==
    { Bearer(Jwt("eyJ.k1", "p.good", "sig.A")),
      Bearer(Jwt("eyJ.k2", "p.good", "sig.B")) }

(* Authorization headers used to exercise the validators *)
AuthHeaders ==
    { None,
      Some(<<"i", "n", "v", "a", "l", "i", "d", "-", "t", "o", "k", "e", "n">>),
      Some(<<"B", "e", "a", "r", "e", "r">>),
      Some(<<"B", "a", "s", "i", "c", " ", "dXNlcjpwYXNz">>),
      Some(<<"b", "e", "a", "r", "e", "r", " ", "eyJ.k1", ".", "p.good", ".", "sig.A">>),
      Bearer(<<"\\xff">>),
      Bearer(<<"invalid-token">>),
      Bearer(<<"not", ".", "a", ".", "jwt">>),
      Bearer(<<"eyJ.k1", ".", "p.good">>),
      Bearer(<<"eyJ.k1", ".", "p.good", ".", "sig.A", ".", "x">>),
      Bearer(Jwt("eyJ.hs", "p.good", "sig.A")),
      Bearer(Jwt("eyJ.k3", "p.good", "sig.A")),
      Bearer(Jwt("eyJ.k1hs", "p.good", "sig.A")),
      Bearer(Jwt("eyJ.k1", "p.good", "sig.B")),
      Bearer(Jwt("eyJ.k1", "p.good", "sig.bad")),
      Bearer(Jwt("eyJ.k1", "p.exp0", "sig.bad")),
      Bearer(Jwt("eyJ.k1", "garbage", "sig.A")),
      Bearer(Jwt("eyJ.hs", "p.test", "sig.secret")),
      Bearer(Jwt("eyJ.hs", "p.incomplete", "sig.secret")) }
    \cup { Bearer(Jwt("eyJ.k1", p, "sig.A")) : p \in DOMAIN PayloadTable }

IdleReq ==
    [pc |-> "Idle", stage |-> "Start", header |-> None, token |-> <<>>, alg |-> "",
     kid |-> "", jwk |-> None, fetched |-> None, claims |-> None, user |-> None,
     err |-> None, status |-> 0, handler |-> FALSE, intro |-> None, io |-> "",
     path |-> <<>>, seen |-> None, src |-> "", verifiedAt |-> None,
     fetches |-> 0, reads |-> 0, writes |-> 0, posts |-> 0, fseq |-> 0, ftime |-> 0]

IdleRf == [pc |-> "Idle", fetched |-> None, err |-> None, fseq |-> 0, ftime |-> 0]

EmptyCache == [jwks |-> None, last_fetch |-> None]

Goto(r, st) == [r EXCEPT !.stage = st, !.path = Append(@, st)]

(* the error is recorded but the request is still passed on *)
RejectedButPassedOn(r, kind, reason) ==
    [Goto(r, "Rejected") EXCEPT !.pc = "Done",
                                !.err = Some([kind |-> kind, reason |-> reason]),
                                !.status = 200,
                                !.handler = TRUE]

(* an AuthError leaves the middleware and becomes the response *)
Rejected(r, kind, reason) ==
    [Goto(r, "Rejected") EXCEPT !.pc = "Done",
                                !.err = Some([kind |-> kind, reason |-> reason]),
                                !.status = StatusOf(kind)]

(* what has happened so far, kept for the properties: operations started, *)
(* fetches made, look-ups that found a stale set, the number of fetches    *)
(* answered, and which of them, made when, filled the cache                *)
NoHistory ==
    [calls |-> 0, fetches |-> 0, stale |-> 0, failed |-> FALSE, cancelled |-> "",
     seq |-> 0, cachedSeq |-> 0, cachedAt |-> 0]

(* UserManagementService: the rows of the users table, the users of the    *)
(* Keycloak realm, the open transaction and the create_user call in hand;  *)
(* db0, kc0 and touched remember the stores as the call found them         *)
NoUsers ==
    [pc |-> "Idle", email |-> <<>>, err |-> None, status |-> 0,
     db |-> {}, kc |-> {}, tx |-> {}, db0 |-> {}, kc0 |-> {}, touched |-> FALSE]

Configs ==
    { [method |-> "Jwks", keycloak_client |-> TRUE, counting |-> FALSE],
      [method |-> "Introspection", keycloak_client |-> TRUE, counting |-> FALSE],
      [method |-> "Introspection", keycloak_client |-> FALSE, counting |-> FALSE] }

Init ==
    /\ now = 0
    /\ ticks = 0
    /\ cfg \in Configs
    /\ idpKeys = <<Jwk1A>>
    /\ cache = EmptyCache
    /\ lock = [readers |-> {}, writer |-> {}]
    /\ req = [t \in Tasks |-> IdleReq]
    /\ rf = IdleRf
    /\ hist = NoHistory
    /\ um = NoUsers

----------------------------------------------------------------------------
(* The environment: the clock and the identity provider *)

Tick(d) ==
    /\ ticks < MaxTicks
    /\ now' = now + d
    /\ ticks' = ticks + 1
    /\ UNCHANGED <<cfg, idpKeys, cache, lock, req, rf, hist, um>>

Rotate(ks) ==
    /\ ks # idpKeys
    /\ idpKeys' = ks
    /\ UNCHANGED <<now, ticks, cfg, cache, lock, req, rf, hist, um>>

----------------------------------------------------------------------------
(* jwt_auth_middleware, from the arrival of the request to its first await *)

(* the prefix is tested without its trailing space *)
ExtractTokenNoSpace(r) ==
    IF IsNone(r.header) THEN Rejected(r, "MissingToken", "")
    ELSE LET v == ToStr(Unwrap(r.header))
         IN  IF IsNone(v) THEN Rejected(r, "InvalidToken", "Invalid header encoding")
             ELSE IF ~StartsWith(Unwrap(v), SubSeq(BearerPrefix, 1, BearerLen - 1))
                  THEN Rejected(r, "InvalidToken", "Missing Bearer prefix")
             ELSE [Goto(r, "TokenExtracted") EXCEPT
                      !.token = SubSeq(Unwrap(v), BearerLen + 1, Len(Unwrap(v)))]

(* extract_token_from_headers *)
ExtractToken(r) ==
    IF IsNone(r.header) THEN Rejected(r, "MissingToken", "")
    ELSE LET v == ToStr(Unwrap(r.header))
         IN  IF IsNone(v) THEN Rejected(r, "InvalidToken", "Invalid header encoding")
             ELSE IF ~StartsWith(Unwrap(v), BearerPrefix)
                  THEN Rejected(r, "InvalidToken", "Missing Bearer prefix")
             ELSE [Goto(r, "TokenExtracted") EXCEPT
                      !.token = SubSeq(Unwrap(v), BearerLen + 1, Len(Unwrap(v)))]

(* a header without kid is looked up under the empty key id *)
JwksHeaderDefaultKid(r) ==
    LET h == DecodeHeader(r.token)
    IN  IF IsNone(h) THEN Rejected(r, "InvalidToken", "Failed to decode header")
        ELSE [r EXCEPT !.pc = "WaitRead", !.alg = Unwrap(h).alg,
                       !.kid = IF IsSome(Unwrap(h).kid) THEN Unwrap(Unwrap(h).kid) ELSE ""]

(* a header without kid is looked up under the first published key id *)
JwksHeaderKidOptional(r) ==
    LET h == DecodeHeader(r.token)
    IN  IF IsNone(h) THEN Rejected(r, "InvalidToken", "Failed to decode header")
        ELSE [r EXCEPT !.pc = "WaitRead", !.alg = Unwrap(h).alg,
                       !.kid = IF IsSome(Unwrap(h).kid) THEN Unwrap(Unwrap(h).kid)
                               ELSE "kid-1"]

(* validate_token_jwks up to the call of get_jwk *)
JwksHeader(r) ==
    LET h == DecodeHeader(r.token)
    IN  IF IsNone(h) THEN Rejected(r, "InvalidToken", "Failed to decode header")
        ELSE IF IsNone(Unwrap(h).kid)
             THEN Rejected(r, "InvalidToken", "Token missing 'kid' (key ID) in header")
        ELSE [r EXCEPT !.pc = "WaitRead", !.alg = Unwrap(h).alg,
                       !.kid = Unwrap(Unwrap(h).kid)]

(* the client is used without looking whether there is one *)
IntrospectStartUnchecked(r, client) ==
    [r EXCEPT !.pc = "Introspecting", !.posts = @ + 1]

(* validate_token_introspection up to the call of introspect_token *)
IntrospectStart(r, client) ==
    IF client
    THEN [r EXCEPT !.pc = "Introspecting", !.posts = @ + 1]
    ELSE Rejected(r, "InvalidConfiguration",
                  "Introspection validation requires KeycloakClient to be configured")

(* the validator is picked by the token: one with a JWT header goes to     *)
(* local validation, any other to introspection                            *)
BeginByTokenShape(r, c) ==
    LET e == ExtractToken(r)
    IN  IF e.stage # "TokenExtracted" THEN e
        ELSE IF IsSome(DecodeHeader(e.token)) THEN JwksHeader(e)
        ELSE IntrospectStart(e, c.keycloak_client)

Begin(r, c) ==
    LET e == ExtractToken(r)
    IN  IF e.stage # "TokenExtracted" THEN e
        ELSE IF c.method = "Jwks" THEN JwksHeader(e)
        ELSE IntrospectStart(e, c.keycloak_client)

StartRequest(t, h) ==
    /\ req[t].pc = "Idle"
    /\ cfg.counting => hist.calls < MaxCalls
    /\ req' = [req EXCEPT ![t] =
                 Begin([Goto(IdleReq, "Start") EXCEPT !.header = h], cfg)]
    /\ hist' = IF cfg.counting THEN [hist EXCEPT !.calls = @ + 1] ELSE hist
    /\ UNCHANGED <<now, ticks, cfg, idpKeys, cache, lock, rf, um>>

----------------------------------------------------------------------------
(* validate_token_jwks after get_jwk returned a key, and the rest of the   *)
(* middleware                                                              *)

Verified(r, t) ==
    LET key == FromJwk(Unwrap(r.jwk))
    IN  IF IsNone(key) THEN Rejected(r, "InvalidToken", "Failed to parse JWK")
        ELSE LET d == Decode(r.token, Unwrap(key), r.alg, t)
             IN  IF d.ok
                 THEN [Goto(r, "Validated") EXCEPT !.claims = Some(d.claims),
                                                   !.verifiedAt = Some(t)]
                 ELSE Rejected([r EXCEPT !.verifiedAt = Some(t)], "InvalidToken", d.reason)

(* an absent email_verified claim counts as verified *)
AttachedVerifiedByDefault(r) ==
    LET c == Unwrap(r.claims)
        id == ParseUuid(Unwrap(c.sub))
    IN  IF IsNone(id) THEN Rejected(r, "InvalidToken", "Invalid user ID format")
        ELSE [Goto(r, "IdentityAttached") EXCEPT
                 !.pc = "Done",
                 !.user = Some([keycloak_user_id |-> Unwrap(id),
                                email |-> c.email,
                                username |-> c.preferred_username,
                                email_verified |->
                                    IF IsSome(c.email_verified)
                                    THEN Unwrap(c.email_verified) ELSE TRUE]),
                 !.handler = TRUE]

(* a subject that is no UUID is replaced by the nil UUID *)
AttachedNilUuid(r) ==
    LET c == Unwrap(r.claims)
        id == ParseUuid(Unwrap(c.sub))
    IN  [Goto(r, "IdentityAttached") EXCEPT
            !.pc = "Done",
            !.user = Some([keycloak_user_id |->
                               IF IsSome(id) THEN Unwrap(id)
                               ELSE "00000000-0000-0000-0000-000000000000",
                           email |-> c.email,
                           username |-> c.preferred_username,
                           email_verified |->
                               IF IsSome(c.email_verified)
                               THEN Unwrap(c.email_verified) ELSE FALSE]),
            !.handler = TRUE]

Attached(r) ==
    LET c == Unwrap(r.claims)
        id == ParseUuid(Unwrap(c.sub))
    IN  IF IsNone(id) THEN Rejected(r, "InvalidToken", "Invalid user ID format")
        ELSE [Goto(r, "IdentityAttached") EXCEPT
                 !.pc = "Done",
                 !.user = Some([keycloak_user_id |-> Unwrap(id),
                                email |-> c.email,
                                username |-> c.preferred_username,
                                email_verified |->
                                    IF IsSome(c.email_verified)
                                    THEN Unwrap(c.email_verified) ELSE FALSE]),
                 !.handler = TRUE]

(* AuthUser::from_request_parts: the handler's extractor reads the identity *)
(* back from the request extensions                                        *)
FromRequestParts(r) ==
    IF IsSome(r.user) THEN [ok |-> TRUE, status |-> 200, user |-> r.user]
    ELSE [ok |-> FALSE, status |-> 401, user |-> None]

AfterKey(r, t) ==
    LET v == Verified(r, t)
    IN  IF v.stage = "Validated" THEN Attached(v) ELSE v

----------------------------------------------------------------------------
(* JwksClient::get_jwk *)

AcquireRead(t) ==
    /\ req[t].pc = "WaitRead"
    /\ lock.writer = {}
    /\ lock' = [lock EXCEPT !.readers = @ \cup {t}]
    /\ req' = [req EXCEPT ![t].pc = "Reading"]
    /\ UNCHANGED <<now, ticks, cfg, idpKeys, cache, rf, hist, um>>

Fresh(c, t) == IsSome(c.last_fetch) /\ t - Unwrap(c.last_fetch) < TTL

(* the freshness test written the wrong way round *)
CacheLookupInverted(c, kid, t) ==
    IF IsSome(c.jwks) /\ ~Fresh(c, t) THEN Find(Unwrap(c.jwks), kid) ELSE None

(* the age of the cached set is not looked at *)
CacheLookupNoTtl(c, kid, t) ==
    IF IsSome(c.jwks) THEN Find(Unwrap(c.jwks), kid) ELSE None

(* the cached key for kid at time t, when the cache is fresh and has it *)
CacheLookup(c, kid, t) ==
    IF IsSome(c.jwks) /\ Fresh(c, t) THEN Find(Unwrap(c.jwks), kid) ELSE None

(* what the lookup found in the cache: recorded for the properties *)
Seen(c, kid, t) ==
    Some([empty |-> IsNone(c.jwks),
          young |-> IsSome(c.last_fetch) /\ t - Unwrap(c.last_fetch) < 300,
          has   |-> IsSome(c.jwks) /\ IsSome(Find(Unwrap(c.jwks), kid))])

(* the read guard is dropped only on the path that returns the cached key *)
CheckCacheKeepsGuard(t) ==
    LET r == [req[t] EXCEPT !.reads = @ + 1, !.seen = Seen(cache, req[t].kid, now)]
        hit == CacheLookup(cache, r.kid, now)
    IN  /\ r.pc = "Reading"
        /\ t \in lock.readers
        /\ lock' = IF IsSome(hit) THEN [lock EXCEPT !.readers = @ \ {t}] ELSE lock
        /\ req' = [req EXCEPT ![t] =
                     IF IsSome(hit)
                     THEN AfterKey([r EXCEPT !.jwk = hit, !.src = "cache"], now)
                     ELSE [r EXCEPT !.pc = "Fetching"]]
        /\ hist' = IF cfg.counting /\ IsSome(cache.last_fetch) /\ ~Fresh(cache, now)
                   THEN [hist EXCEPT !.stale = @ + 1] ELSE hist
        /\ UNCHANGED <<now, ticks, cfg, idpKeys, cache, rf, um>>

CheckCache(t) ==
    LET r == [req[t] EXCEPT !.reads = @ + 1, !.seen = Seen(cache, req[t].kid, now)]
        hit == CacheLookup(cache, r.kid, now)
    IN  /\ r.pc = "Reading"
        /\ t \in lock.readers
        /\ lock' = [lock EXCEPT !.readers = @ \ {t}]
        /\ req' = [req EXCEPT ![t] =
                     IF IsSome(hit)
                     THEN AfterKey([r EXCEPT !.jwk = hit, !.src = "cache"], now)
                     ELSE [r EXCEPT !.pc = "Fetching"]]
        /\ hist' = IF cfg.counting /\ IsSome(cache.last_fetch) /\ ~Fresh(cache, now)
                   THEN [hist EXCEPT !.stale = @ + 1] ELSE hist
        /\ UNCHANGED <<now, ticks, cfg, idpKeys, cache, rf, um>>

(* a kid missing from the fetched set makes the lookup fetch again *)
FetchedRetry(r, jwks) ==
    LET k == Find(jwks, r.kid)
    IN  IF IsNone(k)
        THEN [r EXCEPT !.fetches = @ + 1]
        ELSE [r EXCEPT !.pc = "WaitWrite", !.jwk = k, !.fetched = Some(jwks),
                       !.fetches = @ + 1, !.src = "fetch"]

(* fetch_jwks succeeded; the key is looked up in the fetched set *)
Fetched(r, jwks) ==
    LET k == Find(jwks, r.kid)
    IN  IF IsNone(k)
        THEN Rejected([r EXCEPT !.fetches = @ + 1], "JwksError", "KeyNotFound")
        ELSE [r EXCEPT !.pc = "WaitWrite", !.jwk = k, !.fetched = Some(jwks),
                       !.fetches = @ + 1, !.src = "fetch"]

FetchOk(t) ==
    /\ req[t].pc = "Fetching"
    /\ req' = [req EXCEPT ![t] =
                 IF cfg.counting
                 THEN [Fetched(req[t], idpKeys) EXCEPT !.fseq = hist.seq + 1, !.ftime = now]
                 ELSE Fetched(req[t], idpKeys)]
    /\ hist' = IF cfg.counting THEN [hist EXCEPT !.fetches = @ + 1, !.seq = @ + 1] ELSE hist
    /\ UNCHANGED <<now, ticks, cfg, idpKeys, cache, lock, rf, um>>

FetchErrors == {"FetchJwks", "FetchFailed", "ParseJwks"}

FetchFailed(r, e) == Rejected([r EXCEPT !.fetches = @ + 1], "JwksError", e)

(* a failed fetch throws the cached key set away *)
FetchFailClearsCache(t, e) ==
    /\ req[t].pc = "Fetching"
    /\ req' = [req EXCEPT ![t] = FetchFailed(req[t], e)]
    /\ hist' = [hist EXCEPT !.fetches = IF cfg.counting THEN @ + 1 ELSE @,
                            !.failed = TRUE]
    /\ cache' = EmptyCache
    /\ UNCHANGED <<now, ticks, cfg, idpKeys, lock, rf, um>>

FetchFail(t, e) ==
    /\ req[t].pc = "Fetching"
    /\ req' = [req EXCEPT ![t] = FetchFailed(req[t], e)]
    /\ hist' = [hist EXCEPT !.fetches = IF cfg.counting THEN @ + 1 ELSE @,
                            !.failed = TRUE]
    /\ UNCHANGED <<now, ticks, cfg, idpKeys, cache, lock, rf, um>>

AcquireWrite(t) ==
    /\ req[t].pc = "WaitWrite"
    /\ lock.readers = {} /\ lock.writer = {}
    /\ lock' = [lock EXCEPT !.writer = {t}]
    /\ req' = [req EXCEPT ![t].pc = "Writing"]
    /\ UNCHANGED <<now, ticks, cfg, idpKeys, cache, rf, hist, um>>

(* the key set is stored but the fetch time is not recorded *)
StoredNoTimestamp(jwks, t) == [jwks |-> Some(jwks), last_fetch |-> None]

Stored(jwks, t) == [jwks |-> Some(jwks), last_fetch |-> Some(t)]

StoreCache(t) ==
    /\ req[t].pc = "Writing"
    /\ lock.writer = {t}
    /\ cache' = Stored(Unwrap(req[t].fetched), now)
    /\ lock' = [lock EXCEPT !.writer = {}]
    /\ req' = [req EXCEPT ![t] = AfterKey([req[t] EXCEPT !.writes = @ + 1], now)]
    /\ hist' = IF cfg.counting
               THEN [hist EXCEPT !.cachedSeq = req[t].fseq, !.cachedAt = req[t].ftime]
               ELSE hist
    /\ UNCHANGED <<now, ticks, cfg, idpKeys, rf, um>>

----------------------------------------------------------------------------
(* JwksClient::refresh; the refreshing caller holds the lock as task 0 *)

RefreshStart ==
    /\ rf.pc = "Idle"
    /\ cfg.counting => hist.calls < MaxCalls
    /\ rf' = [IdleRf EXCEPT !.pc = "Fetching"]
    /\ hist' = IF cfg.counting THEN [hist EXCEPT !.calls = @ + 1] ELSE hist
    /\ UNCHANGED <<now, ticks, cfg, idpKeys, cache, lock, req, um>>

RefreshFetchOk ==
    /\ rf.pc = "Fetching"
    /\ rf' = IF cfg.counting
             THEN [rf EXCEPT !.pc = "WaitWrite", !.fetched = Some(idpKeys),
                             !.fseq = hist.seq + 1, !.ftime = now]
             ELSE [rf EXCEPT !.pc = "WaitWrite", !.fetched = Some(idpKeys)]
    /\ hist' = IF cfg.counting THEN [hist EXCEPT !.seq = @ + 1] ELSE hist
    /\ UNCHANGED <<now, ticks, cfg, idpKeys, cache, lock, req, um>>

RefreshFetchFail(e) ==
    /\ rf.pc = "Fetching"
    /\ rf' = [rf EXCEPT !.pc = "Idle", !.err = Some(e)]
    /\ hist' = [hist EXCEPT !.failed = TRUE]
    /\ UNCHANGED <<now, ticks, cfg, idpKeys, cache, lock, req, um>>

RefreshAcquireWrite ==
    /\ rf.pc = "WaitWrite"
    /\ lock.readers = {} /\ lock.writer = {}
    /\ lock' = [lock EXCEPT !.writer = {0}]
    /\ rf' = [rf EXCEPT !.pc = "Writing"]
    /\ UNCHANGED <<now, ticks, cfg, idpKeys, cache, req, hist, um>>

RefreshStore ==
    /\ rf.pc = "Writing"
    /\ lock.writer = {0}
    /\ cache' = Stored(Unwrap(rf.fetched), now)
    /\ lock' = [lock EXCEPT !.writer = {}]
    /\ rf' = IdleRf
    /\ hist' = IF cfg.counting
               THEN [hist EXCEPT !.cachedSeq = rf.fseq, !.cachedAt = rf.ftime]
               ELSE hist
    /\ UNCHANGED <<now, ticks, cfg, idpKeys, req, um>>

----------------------------------------------------------------------------
(* validate_token_introspection after introspect_token returned *)

ActiveResponse ==
    [active |-> TRUE, sub |-> Some(UuidA), exp |-> Some(4000), iat |-> Some(0),
     aud |-> Some(ExpectedAudience), iss |-> Some(ExpectedIssuer),
     username |-> Some("alice")]

IntrospectionResponses ==
    { ActiveResponse,
      [ActiveResponse EXCEPT !.active = FALSE],
      [active |-> FALSE, sub |-> None, exp |-> None, iat |-> None, aud |-> None,
       iss |-> None, username |-> None],
      [ActiveResponse EXCEPT !.sub = None],
      [ActiveResponse EXCEPT !.exp = None],
      [ActiveResponse EXCEPT !.exp = Some(0)],
      [ActiveResponse EXCEPT !.exp = Some(-1)],
      [ActiveResponse EXCEPT !.iat = None],
      [ActiveResponse EXCEPT !.username = None],
      [ActiveResponse EXCEPT !.sub = Some("not-a-uuid")] }

(* the active flag of the response is not looked at *)
IntrospectedIgnoresActive(r0, i) ==
    LET r == [r0 EXCEPT !.intro = Some(i)]
    IN  IF IsNone(i.sub) THEN Rejected(r, "InvalidToken", "Missing 'sub' claim in token")
        ELSE IF IsNone(i.exp) THEN Rejected(r, "InvalidToken", "Missing 'exp' claim in token")
        ELSE Attached([Goto(r, "Validated") EXCEPT
                          !.claims = Some([sub |-> i.sub,
                                           iat |-> IF IsSome(i.iat) THEN i.iat ELSE Some(0),
                                           exp |-> i.exp, nbf |-> None,
                                           aud |-> i.aud, iss |-> i.iss, email |-> None,
                                           preferred_username |-> i.username,
                                           email_verified |-> None])])

(* the username of the response is also taken as the email *)
IntrospectedUsernameAsEmail(r0, i) ==
    LET r == [r0 EXCEPT !.intro = Some(i)]
    IN  IF ~i.active THEN Rejected(r, "InvalidToken", "Token is not active")
        ELSE IF IsNone(i.sub) THEN Rejected(r, "InvalidToken", "Missing 'sub' claim in token")
        ELSE IF IsNone(i.exp) THEN Rejected(r, "InvalidToken", "Missing 'exp' claim in token")
        ELSE Attached([Goto(r, "Validated") EXCEPT
                          !.claims = Some([sub |-> i.sub,
                                           iat |-> IF IsSome(i.iat) THEN i.iat ELSE Some(0),
                                           exp |-> i.exp, nbf |-> None,
                                           aud |-> i.aud, iss |-> i.iss, email |-> i.username,
                                           preferred_username |-> i.username,
                                           email_verified |-> None])])

(* a response whose exp has passed is refused *)
IntrospectedChecksExpiry(r0, i) ==
    LET r == [r0 EXCEPT !.intro = Some(i)]
    IN  IF ~i.active THEN Rejected(r, "InvalidToken", "Token is not active")
        ELSE IF IsNone(i.sub) THEN Rejected(r, "InvalidToken", "Missing 'sub' claim in token")
        ELSE IF IsNone(i.exp) THEN Rejected(r, "InvalidToken", "Missing 'exp' claim in token")
        ELSE IF Unwrap(i.exp) < now THEN Rejected(r, "InvalidToken", "ExpiredSignature")
        ELSE Attached([Goto(r, "Validated") EXCEPT
                          !.claims = Some([sub |-> i.sub,
                                           iat |-> IF IsSome(i.iat) THEN i.iat ELSE Some(0),
                                           exp |-> i.exp, nbf |-> None,
                                           aud |-> i.aud, iss |-> i.iss, email |-> None,
                                           preferred_username |-> i.username,
                                           email_verified |-> None])])

Introspected(r0, i) ==
    LET r == [r0 EXCEPT !.intro = Some(i)]
    IN  IF ~i.active THEN Rejected(r, "InvalidToken", "Token is not active")
        ELSE IF IsNone(i.sub) THEN Rejected(r, "InvalidToken", "Missing 'sub' claim in token")
        ELSE IF IsNone(i.exp) THEN Rejected(r, "InvalidToken", "Missing 'exp' claim in token")
        ELSE Attached([Goto(r, "Validated") EXCEPT
                          !.claims = Some([sub |-> i.sub,
                                           iat |-> IF IsSome(i.iat) THEN i.iat ELSE Some(0),
                                           exp |-> i.exp, nbf |-> None,
                                           aud |-> i.aud, iss |-> i.iss, email |-> None,
                                           preferred_username |-> i.username,
                                           email_verified |-> None])])

IntrospectRespond(t, i) ==
    /\ req[t].pc = "Introspecting"
    /\ req' = [req EXCEPT ![t] = Introspected(req[t], i)]
    /\ UNCHANGED <<now, ticks, cfg, idpKeys, cache, lock, rf, hist, um>>

IntrospectErrors == {"IntrospectToken", "ParseIntrospectionResponse"}

(* what can go wrong with the introspection call: the request or the      *)
(* reading of the body fails, or the body is not an introspection record  *)
TransportFailures == {"timeout", "connection refused", "body cut off"}
BodyFailures == {"body is not JSON", "body lacks active"}
IdpFailures == TransportFailures \cup BodyFailures

(* every failure is reported as a failure of the request *)
IntrospectTokenErrorAllTransport(f) == "IntrospectToken"

(* KeycloakClient::introspect_token: the error kind of each failure *)
IntrospectTokenError(f) ==
    IF f \in TransportFailures THEN "IntrospectToken" ELSE "ParseIntrospectionResponse"

IntrospectFail(t, f) ==
    /\ req[t].pc = "Introspecting"
    /\ req' = [req EXCEPT ![t] =
                 Rejected([req[t] EXCEPT !.io = f], "IntrospectionError",
                          IntrospectTokenError(f))]
    /\ UNCHANGED <<now, ticks, cfg, idpKeys, cache, lock, rf, hist, um>>

(* the awaits of the pipeline: the two lock acquisitions and the key set   *)
(* fetch of get_jwk, and the introspection call                            *)
SuspensionPoints == {"WaitRead", "Fetching", "WaitWrite", "Introspecting"}

(* the task is dropped wherever it is, a guard it holds is not released *)
CancelAnywhere(t) ==
    /\ req[t].pc \in SuspensionPoints \cup {"Reading", "Writing"}
    /\ req' = [req EXCEPT ![t] = IdleReq]
    /\ hist' = [hist EXCEPT !.cancelled = req[t].pc]
    /\ UNCHANGED <<now, ticks, cfg, idpKeys, cache, lock, rf, um>>

(* the request is cancelled: its task is dropped at the await it is        *)
(* suspended in                                                            *)
Cancel(t) ==
    /\ req[t].pc \in SuspensionPoints
    /\ req' = [req EXCEPT ![t] = IdleReq]
    /\ hist' = [hist EXCEPT !.cancelled = req[t].pc]
    /\ UNCHANGED <<now, ticks, cfg, idpKeys, cache, lock, rf, um>>

(* the response leaves the middleware and the task ends *)
Respond(t) ==
    /\ req[t].pc = "Done"
    /\ req' = [req EXCEPT ![t] = IdleReq]
    /\ UNCHANGED <<now, ticks, cfg, idpKeys, cache, lock, rf, hist, um>>

----------------------------------------------------------------------------

GetJwk(t) ==
    \/ AcquireRead(t)
    \/ CheckCache(t)
    \/ FetchOk(t)
    \/ AcquireWrite(t)
    \/ StoreCache(t)

Refresh ==
    \/ RefreshStart
    \/ RefreshFetchOk
    \/ \E e \in FetchErrors : RefreshFetchFail(e)
    \/ RefreshAcquireWrite
    \/ RefreshStore

(* requests and out-of-band refreshes against the key set cache *)
Next ==
    \/ \E d \in TickSteps : Tick(d)
    \/ \E ks \in KeySets : Rotate(ks)
    \/ \E t \in Tasks, h \in CacheHeaders : StartRequest(t, h)
    \/ \E t \in Tasks : GetJwk(t)
    \/ \E t \in Tasks, e \in FetchErrors : FetchFail(t, e)
    \/ \E t \in Tasks : Respond(t)
    \/ Refresh

InitJwks == Init /\ cfg.method = "Jwks"

Spec == InitJwks /\ [][Next]_vars

(* one request at a time, every kind of Authorization header, both modes *)
NextAuth ==
    \/ \E d \in TickSteps : Tick(d)
    \/ \E h \in AuthHeaders : StartRequest(1, h)
    \/ GetJwk(1)
    \/ \E e \in FetchErrors : FetchFail(1, e)
    \/ \E i \in IntrospectionResponses : IntrospectRespond(1, i)
    \/ \E f \in IdpFailures : IntrospectFail(1, f)
    \/ Respond(1)

SpecAuth == Init /\ [][NextAuth]_vars

(* the steps a lookup takes on its own, and the expiry of the 10 s request *)
(* timeout of the key set fetch                                            *)
LocalSteps(t) == AcquireRead(t) \/ CheckCache(t) \/ AcquireWrite(t) \/ StoreCache(t)

FetchTimeout(t) == FetchFail(t, "FetchJwks")

(* the requests of SpecAuth with the progress the code guarantees: the     *)
(* key set client times out, the introspection client does not             *)
SpecLive ==
    /\ Init /\ [][NextAuth]_vars
    /\ WF_vars(LocalSteps(1))
    /\ WF_vars(FetchTimeout(1))

(* consecutive lookups of one published key id, with a counting fetcher *)
InitSeq ==
    /\ now = 0
    /\ ticks = 0
    /\ cfg = [method |-> "Jwks", keycloak_client |-> TRUE, counting |-> TRUE]
    /\ idpKeys \in KeySets
    /\ cache = EmptyCache
    /\ lock = [readers |-> {}, writer |-> {}]
    /\ req = [t \in Tasks |-> IdleReq]
    /\ rf = IdleRf
    /\ hist = NoHistory
    /\ um = NoUsers

NextSeq ==
    \/ \E d \in TickSteps : Tick(d)
    \/ StartRequest(1, Bearer(Jwt("eyJ.k1", "p.good", "sig.A")))
    \/ GetJwk(1)
    \/ Respond(1)

SpecSeq == InitSeq /\ [][NextSeq]_vars

(* a bounded number of look-ups and refreshes racing each other while the  *)
(* identity provider rotates its keys, with the fetches numbered           *)
InitRace ==
    /\ now = 0
    /\ ticks = 0
    /\ cfg = [method |-> "Jwks", keycloak_client |-> TRUE, counting |-> TRUE]
    /\ idpKeys = <<Jwk1A>>
    /\ cache = EmptyCache
    /\ lock = [readers |-> {}, writer |-> {}]
    /\ req = [t \in Tasks |-> IdleReq]
    /\ rf = IdleRf
    /\ hist = NoHistory
    /\ um = NoUsers

NextRace ==
    \/ \E d \in TickSteps : Tick(d)
    \/ \E ks \in KeySets : Rotate(ks)
    \/ \E h \in CacheHeaders : StartRequest(1, h)
    \/ GetJwk(1)
    \/ \E e \in FetchErrors : FetchFail(1, e)
    \/ Respond(1)
    \/ Refresh

SpecRace == InitRace /\ [][NextRace]_vars

(* concurrent requests, an out-of-band refresh and cancellation *)
ConcConfigs == {c \in Configs : c.keycloak_client}

InitConc ==
    /\ now = 0
    /\ ticks = 0
    /\ cfg \in ConcConfigs
    /\ idpKeys \in KeySets
    /\ cache = EmptyCache
    /\ lock = [readers |-> {}, writer |-> {}]
    /\ req = [t \in Clients |-> IdleReq]
    /\ rf = IdleRf
    /\ hist = NoHistory
    /\ um = NoUsers

NextConc ==
    \/ \E t \in Clients, h \in CacheHeaders : StartRequest(t, h)
    \/ \E t \in Clients : GetJwk(t)
    \/ \E t \in Clients, e \in FetchErrors : FetchFail(t, e)
    \/ \E t \in Clients : IntrospectRespond(t, ActiveResponse)
    \/ \E t \in Clients, f \in IdpFailures : IntrospectFail(t, f)
    \/ \E t \in Clients : Cancel(t)
    \/ \E t \in Clients : Respond(t)
    \/ Refresh

SpecConc == InitConc /\ [][NextConc]_vars

----------------------------------------------------------------------------
(* UserManagementService::create_user, one step for each await *)

Contains(s, c) == \E i \in 1..Len(s) : s[i] = c

IsValidEmail(email) == Contains(email, "@") /\ Contains(email, ".") /\ Len(email) > 3

NotAnEmail == <<"n", "o", "t", "-", "a", "n", "-", "e", "m", "a", "i", "l">>
AtExampleCom == <<"@", "e", "x", "a", "m", "p", "l", "e", ".", "c", "o", "m">>
MissingAtCom == <<"m", "i", "s", "s", "i", "n", "g", "-", "a", "t", ".", "c", "o", "m">>
MissingDomainAt ==
    <<"m", "i", "s", "s", "i", "n", "g", "-", "d", "o", "m", "a", "i", "n", "@">>
AliceEmail == <<"a", "@", "b", ".", "c">>
BobEmail == <<"b", "@", "c", ".", "d">>

Emails ==
    {NotAnEmail, AtExampleCom, MissingAtCom, MissingDomainAt, <<>>, AliceEmail, BobEmail}

(* service::Error as a response *)
ServiceStatusOf(kind) ==
    CASE kind \in {"DuplicateFileHash", "UserAlreadyExists", "UserExistsInKeycloak"} -> 409
      [] kind \in {"UserNotFound", "KeycloakUserNotFound"} -> 404
      [] kind = "InvalidEmail" -> 400
      [] OTHER -> 500

(* an error leaves create_user; the open transaction is dropped with it *)
Failed(u, kind) ==
    [u EXCEPT !.pc = "Done", !.err = Some(kind), !.status = ServiceStatusOf(kind),
              !.tx = {}]

Called(u, email) ==
    LET c == [u EXCEPT !.pc = "Begin", !.email = email, !.err = None, !.status = 0,
                       !.tx = {}, !.db0 = u.db, !.kc0 = u.kc, !.touched = FALSE]
    IN  IF ~IsValidEmail(email) THEN Failed(c, "InvalidEmail") ELSE c

CreateUser(email) ==
    /\ um.pc \in {"Idle", "Done"}
    /\ um' = Called(um, email)
    /\ UNCHANGED <<now, ticks, cfg, idpKeys, cache, lock, req, rf, hist>>

BeginOk ==
    /\ um.pc = "Begin"
    /\ um' = [um EXCEPT !.pc = "DbLookup", !.touched = TRUE]
    /\ UNCHANGED <<now, ticks, cfg, idpKeys, cache, lock, req, rf, hist>>

(* the row that is there is not noticed *)
LookedUpIgnoresRow(u) == [u EXCEPT !.pc = "KcLookup"]

LookedUp(u) ==
    IF u.email \in u.db THEN Failed(u, "UserAlreadyExists")
    ELSE [u EXCEPT !.pc = "KcLookup"]

GetUserByEmailOk ==
    /\ um.pc = "DbLookup"
    /\ um' = LookedUp(um)
    /\ UNCHANGED <<now, ticks, cfg, idpKeys, cache, lock, req, rf, hist>>

CheckUserExistsInKeycloakOk ==
    /\ um.pc = "KcLookup"
    /\ um' = IF um.email \in um.kc THEN Failed(um, "UserExistsInKeycloak")
             ELSE [um EXCEPT !.pc = "KcPost"]
    /\ UNCHANGED <<now, ticks, cfg, idpKeys, cache, lock, req, rf, hist>>

RealmUsersPostOk ==
    /\ um.pc = "KcPost"
    /\ um' = [um EXCEPT !.pc = "KcGet", !.kc = @ \cup {um.email}]
    /\ UNCHANGED <<now, ticks, cfg, idpKeys, cache, lock, req, rf, hist>>

RealmUsersGetOk ==
    /\ um.pc = "KcGet"
    /\ um' = IF um.email \in um.kc THEN [um EXCEPT !.pc = "DbInsert"]
             ELSE Failed(um, "KeycloakUserNotFound")
    /\ UNCHANGED <<now, ticks, cfg, idpKeys, cache, lock, req, rf, hist>>

InsertUserOk ==
    /\ um.pc = "DbInsert"
    /\ um' = [um EXCEPT !.pc = "Commit", !.tx = {um.email}]
    /\ UNCHANGED <<now, ticks, cfg, idpKeys, cache, lock, req, rf, hist>>

CommitOk ==
    /\ um.pc = "Commit"
    /\ um' = [um EXCEPT !.pc = "Done", !.db = @ \cup um.tx, !.tx = {}, !.status = 200]
    /\ UNCHANGED <<now, ticks, cfg, idpKeys, cache, lock, req, rf, hist>>

(* the error each awaited call of create_user is given when it fails *)
StepError ==
    ("Begin" :> "BeginTransaction") @@ ("DbLookup" :> "GetUserByEmail") @@
    ("KcLookup" :> "GetKeycloakUser") @@ ("KcPost" :> "CreateKeycloakUser") @@
    ("KcGet" :> "GetKeycloakUser") @@ ("DbInsert" :> "InsertUser") @@
    ("Commit" :> "CommitTransaction")

StepFail ==
    /\ um.pc \in DOMAIN StepError
    /\ um' = Failed(um, StepError[um.pc])
    /\ UNCHANGED <<now, ticks, cfg, idpKeys, cache, lock, req, rf, hist>>

InitUsers == Init /\ cfg.method = "Jwks"

NextUsers ==
    \/ \E email \in Emails : CreateUser(email)
    \/ BeginOk
    \/ GetUserByEmailOk
    \/ CheckUserExistsInKeycloakOk
    \/ RealmUsersPostOk
    \/ RealmUsersGetOk
    \/ InsertUserOk
    \/ CommitOk
    \/ StepFail

SpecUsers == InitUsers /\ [][NextUsers]_vars

----------------------------------------------------------------------------
(* Properties of the key set cache *)

Has(c, kid) == IsSome(c.jwks) /\ IsSome(Find(Unwrap(c.jwks), kid))

Age(c, t) == t - Unwrap(c.last_fetch)

ReadsNow(t) == req[t].pc = "Reading" /\ req'[t].pc # "Reading"

ServedFromCache(r) ==
    r.pc = "Done" /\ r.src = "cache" /\ r.fetches = 0 /\ r.writes = 0

(* C1: a get_jwk that reads a cached key set younger than 300 s which      *)
(* contains the kid returns exactly that cached key, and the call ends     *)
(* without a network fetch and without writing the cache.                  *)
C1_FreshHitServedFromCache ==
    [][\A t \in Tasks :
         (ReadsNow(t) /\ Has(cache, req[t].kid) /\ Age(cache, now) < 300) =>
            /\ req'[t].jwk = Find(Unwrap(cache.jwks), req[t].kid)
            /\ ServedFromCache(req'[t])
            /\ cache' = cache]_vars

C1_Witness ==
    \E t \in Tasks :
        /\ ServedFromCache(req[t]) /\ req[t].reads = 1
        /\ Unwrap(req[t].seen).has /\ Unwrap(req[t].seen).young
        /\ req[t].jwk = Some(Jwk1A)
        /\ now = 299 /\ cache.last_fetch = Some(0)

Quiescent == \A t \in Tasks : req[t].pc \in {"Idle", "Done"}

(* C2: consecutive, non-overlapping lookups of a published kid, starting   *)
(* from an empty cache: once the first lookup has returned, the number of  *)
(* fetches made in total is one plus the number of lookups that found the  *)
(* cached set 300 s old or older; so all lookups inside the window cost    *)
(* one fetch, and the first lookup after the window costs one more.        *)
C2_OneFetchPerWindow ==
    /\ hist.fetches <= 1 + hist.stale
    /\ (Quiescent /\ hist.calls >= 1) => hist.fetches = 1 + hist.stale
    /\ (Quiescent /\ hist.calls >= 1 /\ hist.stale = 0) => hist.fetches = 1

C2_Witness ==
    /\ Quiescent
    /\ hist.calls = 3 /\ hist.stale = 1 /\ hist.fetches = 2
    /\ req[1].pc = "Done" /\ req[1].fetches = 1 /\ ~Unwrap(req[1].seen).young
    /\ now = 300 /\ cache.last_fetch = Some(300)

ErrIs(r, kind) == IsSome(r.err) /\ Unwrap(r.err).kind = kind

FetchErrored(r) == ErrIs(r, "JwksError") /\ Unwrap(r.err).reason \in FetchErrors

KeyNotFound(r) == ErrIs(r, "JwksError") /\ Unwrap(r.err).reason = "KeyNotFound"

(* C3: every get_jwk whose fetch succeeded has stored the fetched set in   *)
(* the cache by the time it returns, also when the kid was not in it.      *)
C3_FetchedSetAlwaysStored ==
    \A t \in Tasks :
        (req[t].pc = "Done" /\ req[t].fetches = 1 /\ ~FetchErrored(req[t])) =>
            req[t].writes = 1

(* C4: a key returned by get_jwk was read from a cached set younger than   *)
(* 300 s or found in the set fetched by that call; a lookup that finds the *)
(* cached set 300 s old or older goes on to fetch, whatever it contains.   *)
C4_NeverServedStale ==
    \A t \in Tasks :
        /\ IsSome(req[t].jwk) =>
              /\ IsSome(req[t].seen)
              /\ \/ /\ req[t].src = "cache" /\ req[t].fetches = 0
                    /\ Unwrap(req[t].seen).young
                 \/ /\ req[t].src = "fetch" /\ req[t].fetches = 1
                    /\ IsSome(req[t].fetched)
                    /\ req[t].jwk = Find(Unwrap(req[t].fetched), req[t].kid)
        /\ (IsSome(req[t].seen) /\ ~Unwrap(req[t].seen).young) =>
              (req[t].pc = "Fetching" \/ req[t].fetches = 1)

C4_Witness ==
    \E t \in Tasks :
        /\ req[t].pc = "Done" /\ IsSome(req[t].jwk)
        /\ Unwrap(req[t].seen).has /\ ~Unwrap(req[t].seen).young
        /\ req[t].src = "fetch" /\ req[t].fetches = 1 /\ req[t].writes = 1
        /\ now = 300 /\ cache.last_fetch = Some(300)

FetchFailStep(t) ==
    req[t].pc = "Fetching" /\ req'[t].pc = "Done" /\ FetchErrored(req'[t])

RefreshFailStep == rf.pc = "Fetching" /\ rf'.pc = "Idle"

(* C5 as stated: a lookup made after a failed fetch, for a kid that is in  *)
(* the cached set, is served from the cache.                               *)
C5_CachedKeyServedAfterFailure ==
    [][\A t \in Tasks :
         (ReadsNow(t) /\ hist.failed /\ Has(cache, req[t].kid)) =>
             ServedFromCache(req'[t])]_vars

(* C5 amended: a failed fetch is returned as its error kind and leaves the *)
(* cached key set and its timestamp as they were; afterwards a lookup of a *)
(* kid that is in the cached set is served from the cache as long as the   *)
(* set is younger than 300 s at that lookup.                               *)
C5_FailureLeavesCacheUsable ==
    [][/\ \A t \in Tasks :
            /\ FetchFailStep(t) =>
                   /\ cache' = cache
                   /\ req'[t].status = 500 /\ ~req'[t].handler /\ hist'.failed
            /\ (ReadsNow(t) /\ hist.failed /\ Has(cache, req[t].kid)
                  /\ Age(cache, now) < 300) =>
                   (ServedFromCache(req'[t])
                      /\ req'[t].jwk = Find(Unwrap(cache.jwks), req[t].kid))
       /\ RefreshFailStep =>
            (cache' = cache /\ IsSome(rf'.err) /\ Unwrap(rf'.err) \in FetchErrors
               /\ hist'.failed)]_vars

C5_Witness ==
    \E t \in Tasks :
        /\ hist.failed /\ rf = IdleRf
        /\ ServedFromCache(req[t]) /\ req[t].kid = "kid-1"
        /\ Has(cache, "kid-1") /\ ~Has(cache, "kid-2")

(* C6: a get_jwk makes at most one fetch; when the fetched set lacks the   *)
(* kid the call ends with KeyNotFound, which the validator reports as      *)
(* JwksError, and a rejected request does nothing more before it ends.     *)
C6_AtMostOneFetch ==
    /\ [](\A t \in Tasks :
            /\ req[t].fetches <= 1
            /\ KeyNotFound(req[t]) =>
                 (req[t].pc = "Done" /\ req[t].fetches = 1 /\ req[t].status = 500
                    /\ ~req[t].handler))
    /\ [][\A t \in Tasks :
            /\ (req[t].pc = "Fetching" /\ req'[t] # req[t] /\ ~FetchErrored(req'[t])
                  /\ IsNone(Find(idpKeys, req[t].kid))) => KeyNotFound(req'[t])
            /\ req[t].stage = "Rejected" => (req'[t] = req[t] \/ req'[t] = IdleReq)]_vars

C6_Witness ==
    \E t \in Tasks :
        /\ KeyNotFound(req[t]) /\ req[t].fetches = 1 /\ req[t].pc = "Done"
        /\ req[t].stage = "Rejected"

----------------------------------------------------------------------------
(* Properties of the validators and of the middleware *)

(* what a well-formed token carries, read off its segments *)
TokenHeader(tok) == HeaderTable[tok[1]]
TokenClaims(tok) == PayloadTable[tok[3]]
TokenSigner(tok) == SignatureTable[tok[5]]

WellFormed(tok) ==
    /\ Len(tok) = 5 /\ tok[2] = "." /\ tok[4] = "."
    /\ tok[1] \in DOMAIN HeaderTable
    /\ tok[3] \in DOMAIN PayloadTable
    /\ tok[5] \in DOMAIN SignatureTable

Unauthorized(r, kind) ==
    /\ r.pc = "Done" /\ r.stage = "Rejected" /\ ErrIs(r, kind)
    /\ r.status = 401 /\ ~r.handler /\ IsNone(r.user)

(* the request went through local validation with a resolved key *)
LocallyChecked(r) ==
    /\ cfg.method = "Jwks" /\ r.pc = "Done"
    /\ IsSome(r.jwk) /\ IsSome(r.verifiedAt) /\ WellFormed(r.token)

(* C7: a token whose exp is earlier than the time of validation is         *)
(* rejected with InvalidToken (401) and the handler is not invoked,        *)
(* whatever its signature.                                                 *)
C7_ExpiredTokenRejected ==
    \A t \in Tasks :
        (LocallyChecked(req[t]) /\ IsSome(TokenClaims(req[t].token).exp)
           /\ Unwrap(TokenClaims(req[t].token).exp) < Unwrap(req[t].verifiedAt)) =>
            Unauthorized(req[t], "InvalidToken")

ValidSignature(r) ==
    /\ TokenSigner(r.token) = Unwrap(r.jwk).key
    /\ (TokenHeader(r.token).alg = "RS256") = (Unwrap(r.jwk).kty = "RSA")

UuidTexts == {UuidA, UuidASimple}

IdentityOf(c) ==
    [keycloak_user_id |-> UuidA, email |-> c.email, username |-> c.preferred_username,
     email_verified |-> (c.email_verified = Some(TRUE))]

Accepted(r) ==
    /\ r.pc = "Done" /\ r.stage = "IdentityAttached" /\ r.handler /\ IsNone(r.err)
    /\ r.user = Some(IdentityOf(TokenClaims(r.token)))

GoodToken(r) ==
    /\ ValidSignature(r)
    /\ IsSome(TokenClaims(r.token).exp)
    /\ Unwrap(TokenClaims(r.token).exp) > Unwrap(r.verifiedAt)
    /\ IsSome(TokenClaims(r.token).sub)
    /\ Unwrap(TokenClaims(r.token).sub) \in UuidTexts

(* C8 as stated: in Jwks mode a token with a resolved key, a valid         *)
(* signature, exp in the future and a UUID sub is accepted, and the        *)
(* attached identity carries its sub, email, preferred_username and        *)
(* email_verified (false when absent).                                     *)
C8_ValidTokenAccepted ==
    \A t \in Tasks :
        (LocallyChecked(req[t]) /\ GoodToken(req[t])) => Accepted(req[t])

(* C8 amended: the same, for tokens that also carry iat and whose iss and  *)
(* aud are the issuer and the audience the validator is set up with.       *)
C8_ExpectedTokenAccepted ==
    \A t \in Tasks :
        (LocallyChecked(req[t]) /\ GoodToken(req[t])
           /\ IsSome(TokenClaims(req[t].token).iat)
           /\ TokenClaims(req[t].token).iss = Some("http://localhost:8080/realms/mpc")
           /\ TokenClaims(req[t].token).aud = Some("account")) => Accepted(req[t])

C8_Witness ==
    \E t \in Tasks :
        /\ LocallyChecked(req[t]) /\ GoodToken(req[t]) /\ Accepted(req[t])
        /\ IsNone(TokenClaims(req[t].token).email_verified)
        /\ ~Unwrap(req[t].user).email_verified

Extracted(r) == Len(r.path) >= 2 /\ r.path[2] = "TokenExtracted"

RECURSIVE Dots(_, _)
Dots(tok, i) == IF i = 0 THEN 0 ELSE Dots(tok, i - 1) + (IF tok[i] = "." THEN 1 ELSE 0)

(* not three dot-separated segments, or a first segment that is no header *)
Malformed(tok) ==
    \/ Dots(tok, Len(tok)) # 2
    \/ Len(tok) < 1
    \/ tok[1] \notin DOMAIN HeaderTable
    \/ tok[2] # "."

OmitsKid(tok) == ~Malformed(tok) /\ IsNone(HeaderTable[tok[1]].kid)

NoCacheUse(r) == r.reads = 0 /\ r.writes = 0 /\ r.fetches = 0 /\ IsNone(r.seen)

(* C9: in Jwks mode a malformed token, or one whose header has no kid, is  *)
(* rejected with InvalidToken (401) in the step that receives it: no cache *)
(* read, no cache write, no fetch, the cache and its lock untouched.       *)
C9_MalformedRejectedBeforeCache ==
    /\ [](\A t \in Tasks :
            (cfg.method = "Jwks" /\ Extracted(req[t])
               /\ (Malformed(req[t].token) \/ OmitsKid(req[t].token))) =>
                (Unauthorized(req[t], "InvalidToken") /\ NoCacheUse(req[t])))
    /\ [][\A t \in Tasks :
            (req[t].pc = "Idle" /\ req'[t].pc = "Done") =>
                (cache' = cache /\ lock' = lock)]_vars

C9_Witness ==
    \E t \in Tasks :
        /\ cfg.method = "Jwks" /\ Extracted(req[t]) /\ OmitsKid(req[t].token)
        /\ Unauthorized(req[t], "InvalidToken") /\ NoCacheUse(req[t])

HasBearerPrefix(h) ==
    /\ Len(h) >= 7
    /\ h[1] = "B" /\ h[2] = "e" /\ h[3] = "a" /\ h[4] = "r" /\ h[5] = "e" /\ h[6] = "r"
    /\ h[7] = " "

StoppedAtStart(r) ==
    r.path = <<"Start", "Rejected">> /\ NoCacheUse(r) /\ r.posts = 0

(* C10: a request without Authorization header is rejected with            *)
(* MissingToken, one whose header does not begin with "Bearer " with       *)
(* InvalidToken; both are 401 and neither reaches a validator, the cache   *)
(* or the network.                                                         *)
C10_HeaderRejectedBeforeValidation ==
    \A t \in Tasks :
        req[t].pc # "Idle" =>
            /\ IsNone(req[t].header) =>
                 (Unauthorized(req[t], "MissingToken") /\ StoppedAtStart(req[t]))
            /\ (IsSome(req[t].header) /\ ~HasBearerPrefix(Unwrap(req[t].header))) =>
                 (Unauthorized(req[t], "InvalidToken") /\ StoppedAtStart(req[t]))

C10_Witness ==
    \E t \in Tasks :
        /\ cfg.method = "Introspection" /\ cfg.keycloak_client
        /\ req[t].header = Some(<<"B", "e", "a", "r", "e", "r">>)
        /\ Unauthorized(req[t], "InvalidToken") /\ StoppedAtStart(req[t])

----------------------------------------------------------------------------
(* Properties of the request state machine *)

SuccessPath == <<"Start", "TokenExtracted", "Validated", "IdentityAttached">>

IsPrefix(p, q) == Len(p) <= Len(q) /\ SubSeq(q, 1, Len(p)) = p

(* a prefix of the success path, or a proper prefix of it ended by Rejected *)
LegalPath(p) ==
    /\ Len(p) >= 1
    /\ \/ IsPrefix(p, SuccessPath)
       \/ /\ p[Len(p)] = "Rejected"
          /\ Len(p) <= 4
          /\ IsPrefix(SubSeq(p, 1, Len(p) - 1), SuccessPath)

Terminal(r) == r.stage \in {"IdentityAttached", "Rejected"}

(* C11: a request moves Start -> TokenExtracted -> Validated ->            *)
(* IdentityAttached, or from one of the first three to Rejected; the two   *)
(* end states are final and exclude each other; the handler runs exactly   *)
(* for the requests that reached IdentityAttached, and then its AuthUser   *)
(* extractor finds the identity the middleware attached.                   *)
C11_RequestStateMachine ==
    /\ [](\A t \in Tasks :
            req[t].pc # "Idle" =>
                /\ LegalPath(req[t].path)
                /\ req[t].stage = req[t].path[Len(req[t].path)]
                /\ Terminal(req[t]) <=> req[t].pc = "Done"
                /\ req[t].handler <=> req[t].stage = "IdentityAttached"
                /\ req[t].stage = "Rejected" <=> IsSome(req[t].err)
                /\ req[t].handler =>
                      (FromRequestParts(req[t]).ok
                         /\ FromRequestParts(req[t]).user = req[t].user)
                /\ req[t].stage = "Rejected" => req[t].status \in {401, 500})
    /\ [][\A t \in Tasks :
            Terminal(req[t]) => (req'[t] = req[t] \/ req'[t] = IdleReq)]_vars

C11_Witness ==
    \E t \in Tasks :
        /\ cfg.method = "Introspection"
        /\ req[t].path = SuccessPath /\ req[t].pc = "Done"
        /\ req[t].handler /\ FromRequestParts(req[t]).ok

----------------------------------------------------------------------------
(* Properties of the introspection validator and of the error responses *)

Reason(r) == Unwrap(r.err).reason

Introspection(r) == Unwrap(r.intro)

(* C12: introspection validates a token only when the response is active   *)
(* and carries sub and exp; an inactive response is InvalidToken "Token is  *)
(* not active", an active one without sub or exp is InvalidToken naming the *)
(* missing claim; each of these is a 401, never an IntrospectionError.      *)
C12_IntrospectionNeedsActiveSubExp ==
    \A t \in Tasks :
        IsSome(req[t].intro) =>
            /\ IsSome(req[t].claims) =>
                  /\ Introspection(req[t]).active
                  /\ IsSome(Introspection(req[t]).sub)
                  /\ IsSome(Introspection(req[t]).exp)
            /\ ~Introspection(req[t]).active =>
                  /\ Unauthorized(req[t], "InvalidToken")
                  /\ Reason(req[t]) = "Token is not active"
            /\ (Introspection(req[t]).active /\ IsNone(Introspection(req[t]).sub)) =>
                  /\ Unauthorized(req[t], "InvalidToken")
                  /\ Reason(req[t]) = "Missing 'sub' claim in token"
            /\ (Introspection(req[t]).active /\ IsSome(Introspection(req[t]).sub)
                  /\ IsNone(Introspection(req[t]).exp)) =>
                  /\ Unauthorized(req[t], "InvalidToken")
                  /\ Reason(req[t]) = "Missing 'exp' claim in token"

C12_Witness ==
    \E t \in Tasks :
        /\ IsSome(req[t].intro)
        /\ ~Introspection(req[t]).active
        /\ IsSome(Introspection(req[t]).sub) /\ IsSome(Introspection(req[t]).exp)
        /\ Unauthorized(req[t], "InvalidToken")
        /\ req[t].path = <<"Start", "TokenExtracted", "Rejected">>

(* C13: in introspection mode without a provisioned client every request   *)
(* that carries a Bearer token ends as InvalidConfiguration with a 500     *)
(* response; no introspection call, no key set fetch, no cache access and  *)
(* no handler.                                                             *)
C13_MissingClientIsConfigurationError ==
    \A t \in Tasks :
        (cfg.method = "Introspection" /\ ~cfg.keycloak_client /\ Extracted(req[t])) =>
            /\ req[t].pc = "Done" /\ req[t].stage = "Rejected"
            /\ ErrIs(req[t], "InvalidConfiguration")
            /\ req[t].status = 500
            /\ ~req[t].handler /\ IsNone(req[t].user)
            /\ req[t].posts = 0 /\ NoCacheUse(req[t]) /\ IsNone(req[t].intro)

C13_Witness ==
    \E t \in Tasks :
        /\ cfg.method = "Introspection" /\ ~cfg.keycloak_client
        /\ req[t].header = Bearer(Jwt("eyJ.k1", "p.good", "sig.A"))
        /\ ErrIs(req[t], "InvalidConfiguration") /\ req[t].status = 500
        /\ req[t].posts = 0

(* C14: when the validator accepted the token but its sub is not a UUID,   *)
(* the request is rejected with InvalidToken "Invalid user ID format"      *)
(* (401), no identity is attached and the handler is not invoked.          *)
C14_NonUuidSubjectRejected ==
    \A t \in Tasks :
        (req[t].pc = "Done" /\ IsSome(req[t].claims)
           /\ Unwrap(Unwrap(req[t].claims).sub) \notin UuidTexts) =>
            /\ Unauthorized(req[t], "InvalidToken")
            /\ Reason(req[t]) = "Invalid user ID format"
            /\ req[t].path = <<"Start", "TokenExtracted", "Validated", "Rejected">>

C14_Witness ==
    \E t \in Tasks :
        /\ cfg.method = "Jwks"
        /\ req[t].pc = "Done" /\ IsSome(req[t].claims)
        /\ Unwrap(req[t].claims).sub = Some("not-a-uuid")
        /\ Unauthorized(req[t], "InvalidToken")
        /\ Reason(req[t]) = "Invalid user ID format"

CredentialErrors == {"MissingToken", "InvalidToken"}

InfrastructureErrors == {"JwksError", "InvalidConfiguration", "IntrospectionError"}

(* C15: a failed authentication answers by the kind of its error: 401 for  *)
(* MissingToken and InvalidToken, 500 for JwksError, InvalidConfiguration  *)
(* and IntrospectionError; a request that did not reach IdentityAttached   *)
(* carries an error, never a success status, and the handler did not run.  *)
C15_ErrorKindDecidesStatus ==
    \A t \in Tasks :
        /\ IsSome(req[t].err) =>
              /\ Unwrap(req[t].err).kind \in CredentialErrors \cup InfrastructureErrors
              /\ Unwrap(req[t].err).kind \in CredentialErrors => req[t].status = 401
              /\ Unwrap(req[t].err).kind \in InfrastructureErrors => req[t].status = 500
              /\ ~req[t].handler /\ req[t].stage = "Rejected"
        /\ (req[t].pc = "Done" /\ req[t].stage # "IdentityAttached") => IsSome(req[t].err)

C15_Witness ==
    \E t \in Tasks :
        /\ ErrIs(req[t], "IntrospectionError") /\ req[t].status = 500
        /\ req[t].pc = "Done" /\ ~req[t].handler

----------------------------------------------------------------------------
(* Properties of the cache lock under concurrency and cancellation *)

HoldsRead(t) == t \in lock.readers

HoldsWrite(t) == lock.writer = {t}

NobodyWrites ==
    /\ rf.pc \notin {"WaitWrite", "Writing"}
    /\ \A u \in Clients : req[u].pc \notin {"WaitWrite", "Writing"}

(* C16: the read guard is held only between its acquisition and the cache  *)
(* look-up, the write guard only between its acquisition and the store; a  *)
(* task that is fetching (or introspecting, or waiting) holds no guard, so *)
(* readers share the lock, and a look-up waiting for read access can take  *)
(* it whenever the other tasks are only reading or fetching.               *)
C16_NoLockHeldWhileFetching ==
    /\ \A t \in Clients :
          /\ HoldsRead(t) <=> req[t].pc = "Reading"
          /\ HoldsWrite(t) <=> req[t].pc = "Writing"
          /\ req[t].pc \in {"Fetching", "Introspecting"} =>
                (~HoldsRead(t) /\ ~HoldsWrite(t))
          /\ (req[t].pc = "WaitRead" /\ NobodyWrites) => ENABLED AcquireRead(t)
    /\ HoldsWrite(0) <=> rf.pc = "Writing"
    /\ rf.pc = "Fetching" => (~HoldsRead(0) /\ ~HoldsWrite(0))
    /\ lock.readers \subseteq Clients
    /\ lock.writer # {} => lock.readers = {}

C16_Witness ==
    \E t \in Clients, u \in Clients :
        /\ t # u
        /\ req[u].pc = "Fetching" /\ rf.pc = "Fetching"
        /\ req[t].pc = "Reading" /\ HoldsRead(t)
        /\ Has(cache, req[t].kid) /\ Age(cache, now) < 300

CancelStep(t) == req[t].pc \in SuspensionPoints /\ req'[t] = IdleReq

(* C18: dropping a validation task at one of its awaits changes neither    *)
(* the cached key set nor the lock; the cache always holds a key set       *)
(* together with its fetch time or neither, it changes only by a complete  *)
(* store, and every guard in the lock belongs to a task that is about to   *)
(* release it.                                                             *)
C18_CancellationHasNoSideEffects ==
    /\ [](/\ IsSome(cache.jwks) <=> IsSome(cache.last_fetch)
          /\ \A t \in lock.readers : t \in Clients /\ req[t].pc = "Reading"
          /\ \A t \in lock.writer :
                \/ t \in Clients /\ req[t].pc = "Writing"
                \/ t = 0 /\ rf.pc = "Writing")
    /\ [][/\ \A t \in Clients :
               CancelStep(t) =>
                   (cache' = cache /\ lock' = lock /\ rf' = rf /\ idpKeys' = idpKeys
                      /\ \A u \in Clients \ {t} : req'[u] = req[u])
          /\ cache' # cache =>
               \E ks \in KeySets : cache' = [jwks |-> Some(ks), last_fetch |-> Some(now)]]_vars

C18_Witness ==
    /\ hist.cancelled = "WaitWrite"
    /\ cache = EmptyCache
    /\ lock = [readers |-> {}, writer |-> {}]
    /\ rf = IdleRf
    /\ \A t \in Clients : req[t] = IdleReq

----------------------------------------------------------------------------
(* Progress, claim validation and the failures of introspection *)

InFlight(r) == r.pc \notin {"Idle", "Done"}

(* C17: every authentication attempt ends in IdentityAttached or Rejected, *)
(* also when the identity provider never answers.                          *)
C17_EveryAttemptTerminates ==
    \A t \in Tasks : InFlight(req[t]) ~> (req[t].pc = "Done" /\ Terminal(req[t]))

Unexpired(r) ==
    /\ IsSome(TokenClaims(r.token).exp)
    /\ Unwrap(TokenClaims(r.token).exp) > Unwrap(r.verifiedAt)

Differs(claim, expected) == IsSome(claim) /\ Unwrap(claim) # expected

NotYetValid(r) ==
    /\ IsSome(TokenClaims(r.token).nbf)
    /\ Unwrap(TokenClaims(r.token).nbf) > Unwrap(r.verifiedAt)

C20_IntrospectionFailuresClassified ==
    \A t \in Tasks :
        req[t].io # "" =>
            /\ req[t].pc = "Done" /\ req[t].stage = "Rejected"
            /\ ErrIs(req[t], "IntrospectionError")
            /\ req[t].status = 500 /\ ~req[t].handler
            /\ IsNone(req[t].intro) /\ IsNone(req[t].claims)
            /\ req[t].io \in TransportFailures => Reason(req[t]) = "IntrospectToken"
            /\ req[t].io \in BodyFailures => Reason(req[t]) = "ParseIntrospectionResponse"
            /\ Reason(req[t]) # "Token is not active"

C20_Witness ==
    \E t \in Tasks :
        /\ req[t].io = "body lacks active"
        /\ ErrIs(req[t], "IntrospectionError")
        /\ Reason(req[t]) = "ParseIntrospectionResponse"
        /\ req[t].status = 500

----------------------------------------------------------------------------
(* Properties of the tokens of the test helper and of the dispatch *)

TestToken == Jwt("eyJ.hs", "p.test", "sig.secret")

MissingKid == "Token missing 'kid' (key ID) in header"

LacksSub(tok) ==
    /\ Len(tok) = 5 /\ tok[2] = "." /\ tok[4] = "."
    /\ tok[1] \in DOMAIN HeaderTable
    /\ tok[3] \in DOMAIN PayloadTable /\ IsNone(PayloadTable[tok[3]].sub)
    /\ IsSome(PayloadTable[tok[3]].exp) /\ Unwrap(PayloadTable[tok[3]].exp) > now

(* C22 as stated: a well-formed, unexpired token whose payload has no sub   *)
(* is answered 401 and does not reach the handler.                          *)
C22_MissingSubIsUnauthorized ==
    \A t \in Tasks :
        (cfg.method = "Jwks" /\ req[t].pc = "Done" /\ Extracted(req[t])
           /\ LacksSub(req[t].token)) =>
            (req[t].status = 401 /\ ~req[t].handler)

(* C22 amended: such a token never reaches the handler and no identity is  *)
(* attached; it is answered 401 InvalidToken when its header has no kid or *)
(* when the key of its kid was obtained (the payload then fails to         *)
(* deserialise), and 500 JwksError when the key could not be obtained.     *)
C22_MissingSubNeverAccepted ==
    \A t \in Tasks :
        (cfg.method = "Jwks" /\ req[t].pc = "Done" /\ Extracted(req[t])
           /\ LacksSub(req[t].token)) =>
            /\ ~req[t].handler /\ IsNone(req[t].user) /\ req[t].stage = "Rejected"
            /\ IsNone(TokenHeader(req[t].token).kid) =>
                  (Unauthorized(req[t], "InvalidToken") /\ Reason(req[t]) = MissingKid)
            /\ (IsSome(req[t].jwk) /\ ValidSignature(req[t])) =>
                  (Unauthorized(req[t], "InvalidToken") /\ Reason(req[t]) = "Json")
            /\ IsSome(req[t].jwk) => Unauthorized(req[t], "InvalidToken")
            /\ (IsSome(TokenHeader(req[t].token).kid) /\ IsNone(req[t].jwk)) =>
                  (ErrIs(req[t], "JwksError") /\ req[t].status = 500)

C22_Witness ==
    \E t \in Tasks :
        /\ cfg.method = "Jwks" /\ req[t].pc = "Done" /\ LacksSub(req[t].token)
        /\ IsSome(req[t].jwk) /\ ValidSignature(req[t])
        /\ Unauthorized(req[t], "InvalidToken") /\ Reason(req[t]) = "Json"

(* C25: the validator is chosen by the configured mode alone, and the mode *)
(* never changes: with Jwks no introspection call is made, with            *)
(* Introspection the key set cache is neither read nor fetched nor written *)
(* and its lock is never taken.                                            *)
C25_ValidatorChosenByModeOnly ==
    /\ [](\A t \in Tasks :
            /\ cfg.method = "Jwks" =>
                  /\ req[t].posts = 0 /\ IsNone(req[t].intro) /\ req[t].io = ""
                  /\ req[t].pc # "Introspecting"
                  /\ (Extracted(req[t]) /\ IsSome(DecodeHeader(req[t].token))
                        /\ IsSome(Unwrap(DecodeHeader(req[t].token)).kid)
                        /\ req[t].pc = "Done") => req[t].reads = 1
            /\ cfg.method = "Introspection" =>
                  /\ NoCacheUse(req[t]) /\ IsNone(req[t].jwk)
                  /\ req[t].pc \in {"Idle", "Introspecting", "Done"}
                  /\ cache = EmptyCache
                  /\ lock = [readers |-> {}, writer |-> {}]
                  /\ (Extracted(req[t]) /\ cfg.keycloak_client) => req[t].posts = 1)
    /\ [][cfg' = cfg]_vars

C25_Witness ==
    \E t \in Tasks :
        /\ cfg.method = "Introspection"
        /\ req[t].token = Jwt("eyJ.k1", "p.good", "sig.A")
        /\ req[t].pc = "Done" /\ req[t].handler
        /\ req[t].posts = 1 /\ NoCacheUse(req[t]) /\ cache = EmptyCache

(* C26: an identity attached in introspection mode has no email and is not *)
(* verified; its display name is the username of the response and its      *)
(* subject is the sub of the response.                                     *)
C26_IntrospectionIdentity ==
    \A t \in Tasks :
        (cfg.method = "Introspection" /\ IsSome(req[t].user)) =>
            /\ IsSome(req[t].intro)
            /\ Unwrap(req[t].user).email = None
            /\ Unwrap(req[t].user).email_verified = FALSE
            /\ Unwrap(req[t].user).username = Introspection(req[t]).username
            /\ Some(Unwrap(req[t].user).keycloak_user_id) = Introspection(req[t]).sub

C26_Witness ==
    \E t \in Tasks :
        /\ cfg.method = "Introspection" /\ IsSome(req[t].user) /\ req[t].handler
        /\ Introspection(req[t]).username = Some("alice")
        /\ Unwrap(req[t].user).username = Some("alice")
        /\ Unwrap(req[t].user).email = None

PassedValidation(r) == \E k \in 1..Len(r.path) : r.path[k] = "Validated"

(* C30: introspection validates exactly the responses that are active and  *)
(* carry sub and exp, whatever the values: a response whose exp lies in    *)
(* the past passes, and a response without iat passes with iat taken as 0. *)
C30_IntrospectionIgnoresExpAndIat ==
    \A t \in Tasks :
        IsSome(req[t].intro) =>
            /\ PassedValidation(req[t]) <=>
                  (Introspection(req[t]).active /\ IsSome(Introspection(req[t]).sub)
                     /\ IsSome(Introspection(req[t]).exp))
            /\ PassedValidation(req[t]) =>
                  /\ IsSome(req[t].claims)
                  /\ Unwrap(req[t].claims).exp = Introspection(req[t]).exp
                  /\ Unwrap(req[t].claims).sub = Introspection(req[t]).sub
                  /\ Unwrap(req[t].claims).iat =
                        (IF IsSome(Introspection(req[t]).iat)
                         THEN Introspection(req[t]).iat ELSE Some(0))

C30_Witness ==
    \E t \in Tasks :
        /\ IsSome(req[t].intro) /\ Introspection(req[t]).exp = Some(-1)
        /\ PassedValidation(req[t]) /\ req[t].stage = "IdentityAttached"
        /\ req[t].handler

----------------------------------------------------------------------------
(* Properties of the cache under racing fetches *)

StoreStep == cache' # cache

(* C27: the cache is never overwritten with a key set that was fetched     *)
(* before the one it holds, and the time stored with a key set is not      *)
(* later than the time that key set was fetched.                           *)
C27_NoRollbackToOlderKeySet ==
    /\ [][StoreStep => hist'.cachedSeq >= hist.cachedSeq]_vars
    /\ [](IsSome(cache.last_fetch) => Unwrap(cache.last_fetch) <= hist.cachedAt)

AllReturned == Quiescent /\ rf.pc = "Idle"

(* C29: the key set and its fetch time are absent together or present      *)
(* together; they are absent only as long as no operation with a           *)
(* successful fetch has returned; a populated cache never becomes empty;   *)
(* and the cache changes only when get_jwk or refresh stores the set it    *)
(* fetched.                                                                *)
C29_CacheLifecycle ==
    /\ [](/\ IsSome(cache.jwks) <=> IsSome(cache.last_fetch)
          /\ (cache = EmptyCache /\ AllReturned) => hist.seq = 0)
    /\ [][/\ IsSome(cache.jwks) => IsSome(cache'.jwks)
          /\ StoreStep =>
               \/ /\ rf.pc = "Writing" /\ rf'.pc = "Idle"
                  /\ cache'.jwks = rf.fetched
               \/ \E t \in Tasks :
                     /\ req[t].pc = "Writing" /\ req'[t].pc = "Done"
                     /\ cache'.jwks = req[t].fetched]_vars

----------------------------------------------------------------------------
(* Properties of create_user *)

(* no '@', nothing before it, or nothing after it *)
NotWellFormed(email) ==
    ~ \E i \in 2..(Len(email) - 1) : email[i] = "@"

StoresAsFound == um.db = um.db0 /\ um.kc = um.kc0 /\ um.tx = {}

(* C23: create_user answers InvalidEmail, 400, without touching the        *)
(* database or Keycloak, for every address without '@', with nothing       *)
(* before the '@', with nothing after it, or empty.                        *)
C23_MalformedEmailRejected ==
    (um.pc # "Idle" /\ NotWellFormed(um.email)) =>
        /\ um.pc = "Done"
        /\ um.err = Some("InvalidEmail")
        /\ um.status = 400
        /\ ~um.touched
        /\ StoresAsFound

Returned == um.pc = "Done"

(* a row is committed exactly when create_user succeeded for its address,  *)
(* so the addresses created before the call are those of db0               *)
CreatedBefore == um.email \in um.db0

C28_CreateUserAllOrNothing ==
    /\ (Returned /\ IsSome(um.err)) => StoresAsFound
    /\ um.pc \in {"Idle", "Done"} => um.kc \subseteq um.db

====
